---- MODULE Spec2Model ----
(***************************************************************************)
(* job_metrics_exporter: the sampling loop of metrics.go.  A ticker wakes  *)
(* one goroutine, which runs collectGPUMetrics and then collectIOMetrics   *)
(* and writes four Prometheus gauge vectors.                               *)
(*                                                                         *)
(* Strings that the code takes apart (directory names, memory fields,      *)
(* counters) are sequences of one-character strings, so that TrimPrefix,   *)
(* Trim and ParseFloat are computed and not assumed.                       *)
(***************************************************************************)
EXTENDS Integers, Sequences, FiniteSets, TLC

VARIABLES
    tickC,      \* number of ticks buffered in ticker.C
    loopPc,     \* position of the sampling goroutine: "select" or "call"
    passes,     \* stages of the passes in flight, oldest first
    cgroup,     \* /sys/fs/cgroup/cpu/slurm as the next read will find it
    query,      \* gpuInfoOutput, computeAppsOutput and err of collectGPUMetrics
    written,    \* the Set calls of the stage that ran last, in order
    store       \* the four gauge vectors: metric -> (label values -> value)

vars == <<tickC, loopPc, passes, cgroup, query, written, store>>

----------------------------------------------------------------------------
(* Bounds of the model *)

MaxRows == 2        \* lines of one compute-apps output
MaxPasses == 2      \* passes the model lets be in flight at once

(* time.NewTicker gives ticker.C a buffer of one tick *)
TickerCap == 1

----------------------------------------------------------------------------
(* Strings *)

None == <<"n", "o", "n", "e">>
JobPrefix == <<"j", "o", "b", "_">>
Job42 == <<"j", "o", "b", "_", "4", "2">>
Job7 == <<"j", "o", "b", "_", "7">>
Tasks == <<"t", "a", "s", "k", "s">>
Pid1234 == <<"1", "2", "3", "4">>
Pid999 == <<"9", "9", "9">>
UuidA == <<"G", "P", "U", "-", "a">>
UuidB == <<"G", "P", "U", "-", "b">>
Index0 == <<"0">>
Index1 == <<"1">>
GpuName == <<"G", "P", "U", "X">>
Util37 == <<"3", "7">>
Mem512 == <<"5", "1", "2", " ", "M", "i", "B">>
MemNA == <<"[", "N", "/", "A", "]">>
MiBCutset == {" ", "M", "i", "B"}
SpaceCutset == {" "}

Digits == <<"0", "1", "2", "3", "4", "5", "6", "7", "8", "9">>

HasPrefix(s, p) ==
    /\ Len(s) >= Len(p)
    /\ SubSeq(s, 1, Len(p)) = p

TrimPrefix(s, p) ==
    IF HasPrefix(s, p) THEN SubSeq(s, Len(p) + 1, Len(s)) ELSE s

(* strings.Trim: the leading and the trailing characters of the cutset go *)
Trim(s, cutset) ==
    LET kept == { k \in DOMAIN s : s[k] \notin cutset }
    IN  IF kept = {} THEN <<>>
        ELSE SubSeq(s, CHOOSE k \in kept : \A l \in kept : k <= l,
                       CHOOSE k \in kept : \A l \in kept : k >= l)

IsDigit(c) == \E d \in DOMAIN Digits : Digits[d] = c

DigitVal(c) == (CHOOSE d \in DOMAIN Digits : Digits[d] = c) - 1

(* The number the first n characters of s write in decimal *)
RECURSIVE DecimalPrefixVal(_, _)
DecimalPrefixVal(s, n) ==
    IF n = 0 THEN 0 ELSE 10 * DecimalPrefixVal(s, n - 1) + DigitVal(s[n])

DecimalVal(s) == DecimalPrefixVal(s, Len(s))

(* strconv.ParseFloat on the strings of the model: unsigned decimal integers
   parse, everything else (the empty string included) is an error. *)
ParseFloat(s) ==
    IF s # <<>> /\ \A k \in DOMAIN s : IsDigit(s[k])
    THEN [ok |-> TRUE, val |-> DecimalVal(s)]
    ELSE [ok |-> FALSE, val |-> 0]

----------------------------------------------------------------------------
(* The metric store *)

GpuUtil == "gpu_utilization"
GpuMem == "gpu_memory_usage_bytes"
IoRead == "io_read_bytes"
IoWrite == "io_write_bytes"
Metrics == {GpuUtil, GpuMem, IoRead, IoWrite}

NoneKey == <<None, None>>

InitStoreNoUtil ==
    [m \in Metrics |-> IF m = GpuUtil THEN << >> ELSE (NoneKey :> 0)]

(* init(): every vector is seeded with ("none", "none") = 0 *)
InitStore == [m \in Metrics |-> (NoneKey :> 0)]

(* One Set call: metric, label values, value; row and pid say what it was for *)
SetCall(m, labels, v, row, pid) ==
    [metric |-> m, labels |-> labels, value |-> v, row |-> row, pid |-> pid]

(* GaugeVec.With(labels).Set(v): creates or overwrites the child *)
Set(st, w) ==
    [st EXCEPT ![w.metric] = (w.labels :> w.value) @@ st[w.metric]]

RECURSIVE ApplyWrites(_, _)
ApplyWrites(st, log) ==
    IF log = <<>> THEN st ELSE ApplyWrites(Set(st, Head(log)), Tail(log))

----------------------------------------------------------------------------
(* The cgroup tree: the entries of the one uid_ directory, in the order
   Readdirnames returns them, each job directory with the lines of its
   cgroup.procs, or err when that file cannot be opened and read.  readable
   is whether os.Open of the base path succeeds. *)

Pids == {Pid1234}

Entry(name, err, procs) == [name |-> name, err |-> err, procs |-> procs]

(* The process is in job_42 or in no job, or the cgroup.procs of job_42
   cannot be read; job_7 is a job without processes *)
Listings ==
    { <<Entry(Tasks, TRUE, <<>>), job42, Entry(Job7, FALSE, <<>>)>> :
        job42 \in { Entry(Job42, FALSE, <<>>),
                    Entry(Job42, FALSE, <<Pid1234>>),
                    Entry(Job42, TRUE, <<>>) } }

Unreadable == [readable |-> FALSE, entries |-> <<>>]

CgroupStates == { [readable |-> TRUE, entries |-> l] : l \in Listings } \cup {Unreadable}

Resolved(job) == [err |-> FALSE, job |-> job]
NotResolved == [err |-> TRUE, job |-> <<>>]

InProcs(pid, procs) == \E k \in DOMAIN procs : procs[k] = pid

(* metrics.go 94-120: the scan of the job entries of one uid directory *)
RECURSIVE ScanJobEntries(_, _, _)
ScanJobEntries(entries, k, pid) ==
    IF k > Len(entries) THEN NotResolved
    ELSE IF /\ HasPrefix(entries[k].name, JobPrefix)
            /\ ~entries[k].err
            /\ InProcs(pid, entries[k].procs)
         THEN Resolved(TrimPrefix(entries[k].name, JobPrefix))
         ELSE ScanJobEntries(entries, k + 1, pid)

getJobIDFromPID(pid, cg) ==
    IF ~cg.readable THEN NotResolved
    ELSE ScanJobEntries(cg.entries, 1, pid)

----------------------------------------------------------------------------
(* The accelerator queries: each output is the command's error and its
   lines, every line already split at ", ". *)

DeviceA == <<UuidA, Index0, GpuName, Util37>>
DeviceB == <<UuidB, Index1, GpuName, Util37>>

Output(err, lines) == [err |-> err, lines |-> lines]

InfoOutputs ==
    { Output(FALSE, <<DeviceA, DeviceB>>),
      Output(FALSE, <<DeviceB>>),
      Output(TRUE, <<>>) }

WellFormedRows == { <<Pid1234, Mem512, u>> : u \in {UuidA, UuidB} }

AppRows ==
    WellFormedRows
        \cup { <<Pid1234, MemNA, UuidB>>,   \* non-numeric memory value
               <<Pid1234, Mem512>>,         \* wrong field count
               <<Pid999, Mem512, UuidB>> }  \* a process that is in no job

Batches == UNION { [1..n -> AppRows] : n \in 0..MaxRows }

AppsOutputs ==
    { Output(FALSE, b) : b \in Batches }
        \cup { Output(TRUE, <<>>), Output(TRUE, <<<<Pid1234, Mem512, UuidB>>>>) }

RECURSIVE GpuUUIDToIndexWrongColumn(_)
GpuUUIDToIndexWrongColumn(lines) ==
    IF lines = <<>> THEN << >>
    ELSE LET parts == lines[Len(lines)]
             before == GpuUUIDToIndexWrongColumn(SubSeq(lines, 1, Len(lines) - 1))
         IN  IF Len(parts) = 4 THEN (parts[1] :> parts[3]) @@ before ELSE before

(* metrics.go 143-153: uuid -> index, a later line overriding an earlier *)
RECURSIVE GpuUUIDToIndex(_)
GpuUUIDToIndex(lines) ==
    IF lines = <<>> THEN << >>
    ELSE LET parts == lines[Len(lines)]
             before == GpuUUIDToIndex(SubSeq(lines, 1, Len(lines) - 1))
         IN  IF Len(parts) = 4 THEN (parts[1] :> parts[2]) @@ before ELSE before

MiB == 1024 * 1024

RECURSIVE ComputeAppsLoopAbort(_, _, _, _)
ComputeAppsLoopAbort(lines, k, uuidToIndex, cg) ==
    IF k > Len(lines) THEN <<>>
    ELSE LET parts == lines[k]
             rest == ComputeAppsLoopAbort(lines, k + 1, uuidToIndex, cg)
         IN  IF Len(parts) # 3 THEN rest
             ELSE LET usedMemory == ParseFloat(Trim(parts[2], MiBCutset))
                      jobID == getJobIDFromPID(parts[1], cg)
                  IN  IF ~usedMemory.ok THEN <<>>
                      ELSE IF parts[3] \notin DOMAIN uuidToIndex THEN rest
                      ELSE IF jobID.err THEN rest
                      ELSE <<SetCall(GpuMem, <<uuidToIndex[parts[3]], jobID.job>>,
                                     usedMemory.val * MiB, k, parts[1])>> \o rest

RECURSIVE ComputeAppsLoopReturn(_, _, _, _)
ComputeAppsLoopReturn(lines, k, uuidToIndex, cg) ==
    IF k > Len(lines) THEN <<>>
    ELSE LET parts == lines[k]
             rest == ComputeAppsLoopReturn(lines, k + 1, uuidToIndex, cg)
         IN  IF Len(parts) # 3 THEN rest
             ELSE LET usedMemory == ParseFloat(Trim(parts[2], MiBCutset))
                      jobID == getJobIDFromPID(parts[1], cg)
                  IN  IF ~usedMemory.ok THEN rest
                      ELSE IF parts[3] \notin DOMAIN uuidToIndex THEN rest
                      ELSE IF jobID.err THEN <<>>
                      ELSE <<SetCall(GpuMem, <<uuidToIndex[parts[3]], jobID.job>>,
                                     usedMemory.val * MiB, k, parts[1])>> \o rest

(* metrics.go 156-178: the Set calls of the compute-apps lines k.. *)
RECURSIVE ComputeAppsLoop(_, _, _, _)
ComputeAppsLoop(lines, k, uuidToIndex, cg) ==
    IF k > Len(lines) THEN <<>>
    ELSE LET parts == lines[k]
             rest == ComputeAppsLoop(lines, k + 1, uuidToIndex, cg)
         IN  IF Len(parts) # 3 THEN rest
             ELSE LET usedMemory == ParseFloat(Trim(parts[2], MiBCutset))
                      jobID == getJobIDFromPID(parts[1], cg)
                  IN  IF ~usedMemory.ok THEN rest
                      ELSE IF parts[3] \notin DOMAIN uuidToIndex THEN rest
                      ELSE IF jobID.err THEN rest
                      ELSE <<SetCall(GpuMem, <<uuidToIndex[parts[3]], jobID.job>>,
                                     usedMemory.val * MiB, k, parts[1])>> \o rest

GPULogIgnoringAppsErr(info, apps, cg) ==
    IF info.err THEN <<>>
    ELSE ComputeAppsLoop(apps.lines, 1, GpuUUIDToIndex(info.lines), cg)

(* metrics.go 127-179: the Set calls of one collectGPUMetrics *)
GPULog(info, apps, cg) ==
    IF info.err THEN <<>>
    ELSE IF apps.err THEN <<>>
    ELSE ComputeAppsLoop(apps.lines, 1, GpuUUIDToIndex(info.lines), cg)

collectGPUMetrics(st, info, apps, cg) == ApplyWrites(st, GPULog(info, apps, cg))

(* The locals of collectGPUMetrics once it has returned *)
Queried(info, apps) ==
    [ran |-> TRUE,
     err |-> info.err \/ apps.err,
     info |-> info.lines,
     apps |-> IF info.err THEN <<>> ELSE apps.lines]

NoQuery == [ran |-> FALSE, err |-> FALSE, info |-> <<>>, apps |-> <<>>]

----------------------------------------------------------------------------
(* /proc/<pid>/io: the error of os.ReadFile and the lines of the file, every
   line already split at ":". *)

Rchar == <<"r", "c", "h", "a", "r">>
ReadBytes == <<"r", "e", "a", "d", "_", "b", "y", "t", "e", "s">>
WriteBytes == <<"w", "r", "i", "t", "e", "_", "b", "y", "t", "e", "s">>

IOFileA ==
    << <<Rchar, <<" ", "1", "0", "0">>>>,
       <<ReadBytes, <<" ", "4", "0", "9", "6">>>>,
       <<WriteBytes, <<" ", "0">>>> >>

IOFileB ==
    << <<ReadBytes, <<" ", "8", "1", "9", "2">>>>,
       <<WriteBytes, <<" ", "4", "0", "9", "6">>>>,
       <<<<>>>> >>

IOFiles == { Output(FALSE, IOFileA), Output(FALSE, IOFileB), Output(TRUE, <<>>) }

ProcIO == [Pids -> IOFiles]

(* metrics.go 258-274: the Set calls of the lines k.. of one io file *)
RECURSIVE IOLineLoop(_, _, _, _)
IOLineLoop(lines, k, pid, jobEntry) ==
    IF k > Len(lines) THEN <<>>
    ELSE LET parts == lines[k]
             rest == IOLineLoop(lines, k + 1, pid, jobEntry)
         IN  IF Len(parts) # 2 THEN rest
             ELSE LET key == Trim(parts[1], SpaceCutset)
                      value == ParseFloat(Trim(parts[2], SpaceCutset))
                  IN  IF ~value.ok THEN rest
                      ELSE IF key = ReadBytes
                      THEN <<SetCall(IoRead, <<pid, jobEntry>>, value.val, 0, pid)>> \o rest
                      ELSE IF key = WriteBytes
                      THEN <<SetCall(IoWrite, <<pid, jobEntry>>, value.val, 0, pid)>> \o rest
                      ELSE rest

(* metrics.go 249-275: the Set calls for the pids k.. of one job *)
RECURSIVE IOPidLoop(_, _, _, _)
IOPidLoop(procs, k, jobEntry, io) ==
    IF k > Len(procs) THEN <<>>
    ELSE LET pid == procs[k]
             rest == IOPidLoop(procs, k + 1, jobEntry, io)
         IN  IF io[pid].err THEN rest
             ELSE IOLineLoop(io[pid].lines, 1, pid, jobEntry) \o rest

(* metrics.go 241-247: a job without pids gets its two zeros *)
ZeroFill(jobEntry) ==
    << SetCall(IoRead, <<None, jobEntry>>, 0, 0, None),
       SetCall(IoWrite, <<None, jobEntry>>, 0, 0, None) >>

(* metrics.go 222-277: the Set calls for the job entries k.. *)
RECURSIVE IOJobLoop(_, _, _)
IOJobLoop(entries, k, io) ==
    IF k > Len(entries) THEN <<>>
    ELSE LET jobEntry == entries[k].name
             procs == entries[k].procs
             rest == IOJobLoop(entries, k + 1, io)
         IN  IF ~HasPrefix(jobEntry, JobPrefix) THEN rest
             ELSE IF entries[k].err THEN rest
             ELSE IF Len(procs) = 0 THEN ZeroFill(jobEntry) \o rest
             ELSE IOPidLoop(procs, 1, jobEntry, io) \o rest

(* metrics.go 181-280: the Set calls of one collectIOMetrics *)
IOLog(cg, io) ==
    IF ~cg.readable THEN <<>> ELSE IOJobLoop(cg.entries, 1, io)

collectIOMetricsReset(st, cg, io) ==
    ApplyWrites([st EXCEPT ![IoRead] = (NoneKey :> 0), ![IoWrite] = (NoneKey :> 0)],
                IOLog(cg, io))

collectIOMetrics(st, cg, io) == ApplyWrites(st, IOLog(cg, io))

----------------------------------------------------------------------------
(* The sampling goroutine of main *)

PcAfterTickGo == "select"

(* metrics.go 287-289: the goroutine itself runs the pass it has received a
   tick for, and is back at the select only when the pass has returned *)
PcAfterTick == "call"

StageAfterGPUAbort(err) == IF err THEN "aborted" ELSE "io"

(* metrics.go 288-289: collectGPUMetrics returns nothing, and
   collectIOMetrics is the next statement whatever happened in it *)
StageAfterGPU(err) == "io"

Remove(seq, i) == SubSeq(seq, 1, i - 1) \o SubSeq(seq, i + 1, Len(seq))

Init ==
    /\ tickC = 0
    /\ loopPc = "select"
    /\ passes = <<>>
    /\ cgroup \in CgroupStates
    /\ query = NoQuery
    /\ written = <<>>
    /\ store = InitStore

(* The runtime timer sends on ticker.C; a tick that finds the buffer full is
   dropped. *)
Tick ==
    /\ tickC' = IF tickC < TickerCap THEN tickC + 1 ELSE tickC
    /\ UNCHANGED <<loopPc, passes, cgroup, query, written, store>>

(* Processes start, exit and move; slurm creates and empties job cgroups. *)
FsChange ==
    /\ cgroup' \in CgroupStates \ {cgroup}
    /\ UNCHANGED <<tickC, loopPc, passes, query, written, store>>

(* case <-ticker.C *)
StartPass ==
    /\ loopPc = "select"
    /\ tickC > 0
    /\ Len(passes) < MaxPasses
    /\ tickC' = tickC - 1
    /\ passes' = Append(passes, "gpu")
    /\ loopPc' = PcAfterTick
    /\ query' = NoQuery
    /\ written' = <<>>
    /\ UNCHANGED <<cgroup, store>>

(* collectGPUMetrics, the two commands answering with one of infos and one
   of outputs *)
CollectGPUFrom(infos, outputs) ==
    \E i \in DOMAIN passes, info \in infos, apps \in outputs :
        /\ passes[i] = "gpu"
        /\ store' = collectGPUMetrics(store, info, apps, cgroup)
        /\ written' = GPULog(info, apps, cgroup)
        /\ query' = Queried(info, apps)
        /\ passes' = [passes EXCEPT ![i] = StageAfterGPU(info.err \/ apps.err)]
        /\ UNCHANGED <<tickC, loopPc, cgroup>>

CollectGPU == CollectGPUFrom(InfoOutputs, AppsOutputs)

CollectIO ==
    \E i \in DOMAIN passes, io \in ProcIO :
        /\ passes[i] = "io"
        /\ store' = collectIOMetrics(store, cgroup, io)
        /\ written' = IOLog(cgroup, io)
        /\ query' = NoQuery
        /\ passes' = Remove(passes, i)
        /\ loopPc' = "select"
        /\ UNCHANGED <<tickC, cgroup>>

Next == Tick \/ FsChange \/ StartPass \/ CollectGPU \/ CollectIO

Spec == Init /\ [][Next]_vars

GPUPending == \E i \in DOMAIN passes : passes[i] = "gpu"
IOPending == \E i \in DOMAIN passes : passes[i] = "io"

(* Whether the loop goes on does not depend on what the rows say: the
   specification for liveness runs the same loop on a few compute-apps
   outputs, a failure, a failure with partial output, an empty one, and
   batches of one and two rows. *)
LiveAppsOutputs ==
    { Output(TRUE, <<>>),
      Output(TRUE, <<<<Pid1234, Mem512, UuidB>>>>),
      Output(FALSE, <<>>),
      Output(FALSE, <<<<Pid1234, Mem512, UuidA>>>>),
      Output(FALSE, <<<<Pid1234, MemNA, UuidB>>, <<Pid1234, Mem512, UuidB>>>>) }

LiveCollectGPU == CollectGPUFrom(InfoOutputs, LiveAppsOutputs)

LiveNext == Tick \/ FsChange \/ StartPass \/ LiveCollectGPU \/ CollectIO

(* The Go scheduler runs the goroutine whenever it can take a step, the
   queries and the file reads return, and the runtime timer keeps firing:
   weak fairness of the four actions.  A stage is enabled exactly while a
   pass is at it (its inputs always exist and it moves the pass on), so
   WF_vars(LiveCollectGPU) and WF_vars(CollectIO) are written out, with
   GPUPending for ENABLED <<LiveCollectGPU>>_vars and IOPending for
   ENABLED <<CollectIO>>_vars. *)
LiveSpec ==
    /\ Init
    /\ [][LiveNext]_vars
    /\ WF_vars(Tick)
    /\ WF_vars(StartPass)
    /\ ([]<>(~GPUPending) \/ []<><<LiveCollectGPU>>_vars)
    /\ ([]<>(~IOPending) \/ []<><<CollectIO>>_vars)

----------------------------------------------------------------------------
TypeOK ==
    /\ tickC \in 0..TickerCap
    /\ loopPc \in {"select", "call"}
    /\ cgroup \in CgroupStates
    /\ \A i \in DOMAIN passes : passes[i] \in {"gpu", "io"}
    /\ DOMAIN store = Metrics

----------------------------------------------------------------------------
(* Steps and observations the properties speak about *)

Range(seq) == { seq[k] : k \in DOMAIN seq }

(* collectGPUMetrics returns in this step *)
GPUStep == ~query.ran /\ query'.ran

(* collectIOMetrics returns in this step *)
IOStep == Len(passes') < Len(passes)

IOMetrics == {IoRead, IoWrite}

Malformed(row) ==
    \/ Len(row) # 3
    \/ ~ParseFloat(Trim(row[2], MiBCutset)).ok

(* The device lines of a device query whose UUID is uuid *)
DevicesOf(info, uuid) == { d \in Range(info) : d[1] = uuid }

----------------------------------------------------------------------------
(* C1: within one pass, a process that has a gpu_memory_usage_bytes entry
   and io_read_bytes / io_write_bytes entries carries the same job_id label
   on all of them. *)
C1_SameJobIDInPass ==
    [][IOStep =>
        \A g \in Range(written), w \in Range(written') :
            (g.metric = GpuMem /\ w.metric \in IOMetrics /\ g.pid = w.pid)
                => g.labels[2] = w.labels[2]]_vars

(* C2: at most one sampling pass is in flight, however long a pass lasts
   and however many ticks arrive meanwhile. *)
C2_SinglePass == Len(passes) <= 1

(* A pass is still running when the next tick has already arrived *)
C2_Witness == passes = <<"io">> /\ loopPc = "call" /\ tickC = TickerCap

(* C3: when collectGPUMetrics ends early on a failed query, collectIOMetrics
   is the next stage of the same pass, the loop comes back to the select,
   and a tick that waits at the select starts a new pass. *)
C3_FailureDoesNotBlock ==
    /\ [][(GPUStep /\ query'.err) => passes' = <<"io">>]_vars
    /\ (query.ran /\ query.err) ~> (loopPc = "select" /\ passes = <<>>)
    /\ (loopPc = "select" /\ tickC > 0) ~> (passes # <<>>)

(* The accelerator stage has just failed and the I/O stage is next *)
C3_Witness == query.ran /\ query.err /\ passes = <<"io">>

(* C4: a collectGPUMetrics in which either query fails leaves every
   gpu_memory_usage_bytes and gpu_utilization entry as it was. *)
C4_FailedQueryWritesNothing ==
    [][(GPUStep /\ query'.err) =>
        /\ store'[GpuMem] = store[GpuMem]
        /\ store'[GpuUtil] = store[GpuUtil]
        /\ written' = <<>>]_vars

(* The compute-apps query failed after the device query had succeeded, with
   an entry of an earlier pass in the store *)
C4_Witness ==
    /\ query.ran /\ query.err /\ query.info # <<>>
    /\ DOMAIN store[GpuMem] # {NoneKey}

(* C5: every entry written for a compute-apps row has as gpu_id the index
   of the device with the row's UUID, and a row whose UUID no device has
   gets no entry. *)
C5_DeviceIndexByUUID ==
    (query.ran /\ ~query.err) =>
        /\ \A w \in Range(written) :
            /\ w.metric = GpuMem
            /\ w.row \in DOMAIN query.apps
            /\ Len(query.apps[w.row]) = 3
            /\ \E d \in DevicesOf(query.info, query.apps[w.row][3]) :
                    w.labels[1] = d[2]
        /\ \A k \in DOMAIN query.apps :
            (Len(query.apps[k]) # 3 \/ DevicesOf(query.info, query.apps[k][3]) = {})
                => \A w \in Range(written) : w.row # k

(* Of two rows the first names a device the query did not return and is
   dropped, the second is written under the index of its device *)
C5_Witness ==
    /\ query.ran /\ ~query.err
    /\ query.info = <<DeviceB>>
    /\ query.apps = << <<Pid1234, Mem512, UuidA>>, <<Pid1234, Mem512, UuidB>> >>
    /\ written = << SetCall(GpuMem, <<Index1, <<"4", "2">>>>, 536870912, 2, Pid1234) >>
    /\ store[GpuMem][<<Index1, <<"4", "2">>>>] = 536870912

(* C6: a job directory without processes gets io_read_bytes and
   io_write_bytes {pid="none", job_id=<the job's JobID>} = 0, and exactly
   that one Set call per I/O metric. *)
C6_ZeroFillUnderJobID ==
    [][(IOStep /\ cgroup.readable) =>
        \A k \in DOMAIN cgroup.entries :
            LET e == cgroup.entries[k]
                jobID == TrimPrefix(e.name, JobPrefix)
            IN  (HasPrefix(e.name, JobPrefix) /\ ~e.err /\ e.procs = <<>>) =>
                    \A m \in IOMetrics :
                        /\ <<None, jobID>> \in DOMAIN store'[m]
                        /\ store'[m][<<None, jobID>>] = 0
                        /\ Cardinality({ i \in DOMAIN written' :
                                /\ written'[i].metric = m
                                /\ written'[i].labels[2] = jobID }) = 1]_vars

(* C7: every metric has the ("none", "none") entry with value 0, from
   startup on. *)
C7_NoneSeedKept ==
    \A m \in Metrics : NoneKey \in DOMAIN store[m] /\ store[m][NoneKey] = 0

(* Passes have run, one of them has written process and job entries *)
C7_Witness ==
    /\ loopPc = "select"
    /\ written # <<>>
    /\ DOMAIN store[GpuMem] # {NoneKey}
    /\ DOMAIN store[IoRead] # {NoneKey}

(* C8: after a pass whose two queries succeeded, a device without a
   compute-apps row has a gpu_utilization entry of its own. *)
C8_IdleDeviceHasUtilization ==
    (query.ran /\ ~query.err) =>
        \A d \in Range(query.info) :
            (\A r \in Range(query.apps) : Len(r) # 3 \/ r[3] # d[1])
                => \E key \in DOMAIN store[GpuUtil] : key[1] = d[2]

(* C9: a malformed compute-apps row is skipped alone; a well-formed row
   after it, with a UUID of a device and a resolvable job, is published. *)
C9_MalformedRowSkippedAlone ==
    [][(GPUStep /\ ~query'.err) =>
        \A k \in DOMAIN query'.apps, j \in DOMAIN query'.apps :
            LET row == query'.apps[j]
                jobID == getJobIDFromPID(row[1], cgroup)
            IN  (/\ k < j
                 /\ Malformed(query'.apps[k])
                 /\ ~Malformed(row)
                 /\ DevicesOf(query'.info, row[3]) # {}
                 /\ ~jobID.err)
                => /\ \E w \in Range(written') : w.row = j
                   /\ \E d \in DevicesOf(query'.info, row[3]) :
                        /\ <<d[2], jobID.job>> \in DOMAIN store'[GpuMem]
                        /\ store'[GpuMem][<<d[2], jobID.job>>] = 512 * MiB]_vars

(* A row with a non-numeric memory value is followed by a published row *)
C9_Witness ==
    /\ query.ran /\ ~query.err
    /\ query.apps = << <<Pid1234, MemNA, UuidB>>, <<Pid1234, Mem512, UuidB>> >>
    /\ \E w \in Range(written) : w.row = 2

(* C10: no entry is ever removed, and an entry changes only by a Set call
   of a pass that finds its process in the job's cgroup.procs (or the job
   empty), or its device in the device query. *)
C10_NoEntryRemoved ==
    [][\A m \in Metrics : \A key \in DOMAIN store[m] :
        /\ key \in DOMAIN store'[m]
        /\ store'[m][key] # store[m][key] =>
            /\ \E w \in Range(written') :
                 w.metric = m /\ w.labels = key /\ w.value = store'[m][key]
            /\ m \in IOMetrics =>
                 /\ IOStep
                 /\ \E e \in Range(cgroup.entries) :
                      /\ e.name = key[2]
                      /\ ~e.err
                      /\ IF key[1] = None THEN e.procs = <<>>
                                          ELSE InProcs(key[1], e.procs)
            /\ m = GpuMem =>
                 /\ GPUStep
                 /\ \E d \in Range(query'.info) : d[2] = key[1]]_vars

(* The process has left job_42: a later pass has zero-filled the job, and
   the entries of the process are still there *)
C10_Witness ==
    /\ loopPc = "select"
    /\ \E w \in Range(written) : w.labels = <<None, Job42>>
    /\ <<Pid1234, Job42>> \in DOMAIN store[IoRead]
    /\ store[IoRead][<<Pid1234, Job42>>] = 8192
    /\ <<Index1, <<"4", "2">>>> \in DOMAIN store[GpuMem]

(* C11: a compute-apps row for whose process getJobIDFromPID returns an
   error (no job directory lists the pid, or the cgroup root cannot be
   opened) gets no gpu_memory_usage_bytes entry under any job_id, and the
   rows after it are still processed. *)
C11_UnresolvedRowSkipped ==
    [][(GPUStep /\ ~query'.err) =>
        \A k \in DOMAIN query'.apps :
            LET row == query'.apps[k]
            IN  (/\ ~Malformed(row)
                 /\ DevicesOf(query'.info, row[3]) # {}
                 /\ getJobIDFromPID(row[1], cgroup).err)
                => /\ \A w \in Range(written') : w.row # k
                   /\ store'[GpuMem] =
                        ApplyWrites(store, written')[GpuMem]
                   /\ \A j \in DOMAIN query'.apps :
                        LET later == query'.apps[j]
                            jobID == getJobIDFromPID(later[1], cgroup)
                        IN  (/\ k < j
                             /\ ~Malformed(later)
                             /\ DevicesOf(query'.info, later[3]) # {}
                             /\ ~jobID.err)
                            => \E w \in Range(written') :
                                 /\ w.row = j
                                 /\ w.labels[2] = jobID.job
                                 /\ w.labels \in DOMAIN store'[GpuMem]]_vars

(* The first row names a process that is in no job and is skipped, the
   second row is published *)
C11_Witness ==
    /\ query.ran /\ ~query.err
    /\ query.info = <<DeviceB>>
    /\ query.apps = << <<Pid999, Mem512, UuidB>>, <<Pid1234, Mem512, UuidB>> >>
    /\ written = << SetCall(GpuMem, <<Index1, <<"4", "2">>>>, 536870912, 2, Pid1234) >>

====
